---- MODULE Spec2Model ----
(***************************************************************************)
(* Model of src/main.py: the OMEMEX buy bot.  One periodic job             *)
(* (fetch_and_process_trades) polls the pool-info and trade-feed           *)
(* endpoints, de-duplicates buys through processed_txs and hands each new  *)
(* buy to process_buy_notification; command handlers maintain the          *)
(* registry chat_ids and its file.                                         *)
(*                                                                         *)
(* Scheduling.  Everything runs on one asyncio event loop.  The requests   *)
(* calls are blocking and get_pool_info awaits nothing, so the only        *)
(* suspension points of a poll cycle are send_video and asyncio.sleep      *)
(* inside the delivery loop (lines 374, 383).  A command handler mutates   *)
(* and saves before its only await (reply_text).  Hence command handlers   *)
(* are atomic, and they interleave with a cycle only at a point of the     *)
(* delivery loop.  The cycle is split into steps (pc) so that its          *)
(* intermediate states can be observed; commands run when pc = "idle".     *)
(***************************************************************************)
EXTENDS Integers, Sequences, FiniteSets, TLC

\* ------------------------------------------------------------------ bounds
\* longest trade list a feed response carries
MaxFeed == 2

\* transaction hashes the feed can show
TxIds == {"t1", "t2", "t3"}

\* chats that can talk to the bot
Chats == {"c1", "c2"}

\* ------------------------------------------------------------ Python values
None == "None"

\* bool(x) of a str-or-None value: None and "" are falsy
Truthy(s) == s \notin {None, ""}

\* a float-or-None value
PyNone == [type |-> "NoneType", value |-> 0]

PyFloat(v) == [type |-> "float", value |-> v]

IsNone(x) == x.type = "NoneType"

\* ------------------------------------------------------------- the registry file
NoFile == [state |-> "absent", ids |-> {}]

CorruptFile == [state |-> "corrupt", ids |-> {}]

GoodFile(ids) == [state |-> "ok", ids |-> ids]

FileStates == {NoFile, CorruptFile} \cup {GoodFile(s) : s \in SUBSET Chats}

\* load_chat_ids: a missing file, or one json.load cannot read, gives set()
LoadChatIds(f) == IF f.state = "ok" THEN f.ids ELSE {}

\* how one call of save_chat_ids can end: written; makedirs/open raised (the
\* file is untouched); open(..., "w") truncated the file and the write raised
SaveResults == {"ok", "open_failed", "write_failed"}

\* mutant of SaveChatIds: nothing is written
SaveChatIdsNoWrite(ids, f, res) == f

\* mutant of SaveChatIds: the set is merged into the old content, not written over it
SaveChatIdsMerge(ids, f, res) ==
    CASE res = "ok"           -> GoodFile(f.ids \cup ids)
      [] res = "open_failed"  -> f
      [] res = "write_failed" -> CorruptFile

\* save_chat_ids: the file after a save of ids that ends as res; never raises
SaveChatIds(ids, f, res) ==
    CASE res = "ok"           -> GoodFile(ids)
      [] res = "open_failed"  -> f
      [] res = "write_failed" -> CorruptFile

\* ------------------------------------------------------------- pool info
BaseId == "omax-chain_0xbase"

Prices == {0, 1}

PoolFailures == {"timeout", "network", "json", "bad_attributes", "bad_included"}

\* a pool-info response: ok, or how the request or its parsing fails.
\* bad_attributes raises in the float() calls of lines 145-148, before the ids
\* are read; bad_included raises in lines 170-181, after they were stored.
PoolResponses ==
    {[status |-> s, price |-> 0, base |-> None] :
        s \in {"timeout", "network", "json", "bad_attributes"}}
    \cup {[status |-> "bad_included", price |-> 0, base |-> b] : b \in {None, BaseId}}
    \cup {[status |-> "ok", price |-> p, base |-> b] : p \in Prices, b \in {None, BaseId}}

\* get_pool_info: the first element of the returned tuple
PoolPrice(resp) == IF resp.status = "ok" THEN PyFloat(resp.price) ELSE PyNone

\* get_pool_info: base_token_api_id after the call (lines 158-163)
PoolBaseId(resp, base) ==
    IF resp.status \in {"ok", "bad_included"} /\ Truthy(resp.base) /\ base # resp.base
    THEN resp.base
    ELSE base

\* mutant of PoolFailed: "if not omemex_price_usd", which also takes 0.0 for a failure
PoolFailedFalsy(price) == IsNone(price) \/ price.value = 0

\* line 219: omemex_price_usd is None
PoolFailed(price) == IsNone(price)

\* ------------------------------------------------------------- trade feed
TxValues == TxIds \cup {None, ""}

\* amounts: whether to_token_amount / from_token_amount / volume_in_usd are
\* there and float() can read them; only process_buy_notification reads them,
\* so they vary for the entries that can be selected
TradeAttrs ==
    {[tx_hash |-> h, kind |-> "buy", amounts |-> a] :
        h \in TxIds, a \in {"ok", "missing", "unparsable"}}
    \cup {[tx_hash |-> h, kind |-> "buy", amounts |-> "ok"] : h \in {None, ""}}
    \cup {[tx_hash |-> h, kind |-> "sell", amounts |-> "ok"] : h \in TxValues}

Feeds == UNION {[1..n -> TradeAttrs] : n \in 0..MaxFeed}

\* a trade-feed response: a status and, when a body arrived, its "data" list
FeedResponses ==
    {[status |-> s, data |-> <<>>] : s \in {"timeout", "network", "json"}}
    \cup {[status |-> s, data |-> d] : s \in {"http_error", "ok"}, d \in Feeds}

NoFeed == [status |-> "none", data |-> <<>>]

\* mutant of FeedRaised: raise_for_status left out, an error body is parsed
FeedRaisedNoStatusCheck(resp) == resp.status \notin {"ok", "http_error"}

\* lines 228-231: requests.get, raise_for_status or response.json raised
FeedRaised(resp) == resp.status # "ok"

\* mutant of FetchCatches: only the clause of line 274 is there
FetchCatchesTimeoutOnly(status) == status = "timeout"

\* lines 274-282: the except clauses of fetch_and_process_trades take Timeout,
\* any other RequestException (raise_for_status included), JSONDecodeError,
\* and, with "except Exception", whatever else the try block raises
FetchCatches(status) ==
    \/ status = "timeout"
    \/ status \in {"network", "http_error"}
    \/ status = "json"
    \/ TRUE

\* line 235: not processed_txs and trades
IsBootstrap(processed, data) == processed = {} /\ data # <<>>

\* mutant of BootstrapIds: the first run stores the buys only
BootstrapBuyIds(data) ==
    {data[i].tx_hash :
        i \in {j \in DOMAIN data : Truthy(data[j].tx_hash) /\ data[j].kind = "buy"}}

\* line 236: the tx_hash values the first run stores
BootstrapIds(data) ==
    {data[i].tx_hash : i \in {j \in DOMAIN data : Truthy(data[j].tx_hash)}}

\* mutant of IsNewBuy: the membership test in processed_txs left out
IsNewBuyNoDedup(attrs, processed) ==
    Truthy(attrs.tx_hash) /\ attrs.kind = "buy"

\* mutant of IsNewBuy: the test of kind left out
IsNewBuyAnyKind(attrs, processed) ==
    Truthy(attrs.tx_hash) /\ attrs.tx_hash \notin processed

\* mutant of IsNewBuy: the test of tx_hash itself left out
IsNewBuyNoIdCheck(attrs, processed) ==
    attrs.kind = "buy" /\ attrs.tx_hash \notin processed

\* line 249: tx_hash and kind == "buy" and tx_hash not in processed_txs
IsNewBuy(attrs, processed) ==
    Truthy(attrs.tx_hash) /\ attrs.kind = "buy" /\ attrs.tx_hash \notin processed

\* mutant of SelectNewBuys: the feed is walked from its end (the commented-out
\* reversed() of line 242)
RECURSIVE SelectNewBuysReversed(_, _)
SelectNewBuysReversed(data, processed) ==
    IF data = <<>> THEN <<>>
    ELSE LET rest == SelectNewBuysReversed(Tail(data), processed)
         IN IF IsNewBuy(Head(data), processed)
            THEN Append(rest, Head(data))
            ELSE rest

\* lines 240-263: new_buys_attributes_list, in feed order
SelectNewBuys(data, processed) ==
    SelectSeq(data, LAMBDA attrs : IsNewBuy(attrs, processed))

\* mutant of MarkProcessed: the set is replaced by the one tx_hash
MarkOnlyThis(processed, attrs) == {attrs.tx_hash}

\* mutant of MarkProcessed: the add of line 269 left out
MarkNothing(processed, attrs) == processed

\* line 269: processed_txs.add(buy_attr_item.get("tx_hash"))
MarkProcessed(processed, attrs) == processed \cup {attrs.tx_hash}

\* ------------------------------------------------------------- notification
\* names bound when line 357 runs: the module's globals (lines 1-55 and the
\* def statements) and the locals process_buy_notification has assigned
BoundNames ==
    {"os", "json", "logging", "asyncio", "requests", "Update",
     "InlineKeyboardMarkup", "InlineKeyboardButton", "ReplyKeyboardMarkup",
     "ReplyKeyboardRemove", "Application", "CommandHandler", "ContextTypes",
     "ApplicationBuilder", "ParseMode", "escape_markdown", "HTTPServer",
     "BaseHTTPRequestHandler", "threading", "re", "logger", "BOT_TOKEN",
     "POOL_ADDRESS", "INTERVAL", "TOKEN_NAME", "QUOTE_TOKEN_SYMBOL", "IMAGE_URL",
     "PORT", "CHAT_FILE", "GECKOTERMINAL_API_URL", "GECKOTERMINAL_POOL_INFO_API_URL",
     "LARGE_BUY_THRESHOLD_TOKEN", "LARGE_BUY_THRESHOLD_USD", "SWAP_URL",
     "METAMASK_ADD_NETWORK_URL", "chat_ids", "processed_txs", "base_token_api_id",
     "quote_token_api_id", "token_symbols_map", "escape_md_v2",
     "buy_attrs", "omemex_price_usd", "price_change_24h", "market_cap_usd",
     "context", "tx_hash_for_log", "api_from_token_id", "api_to_token_id",
     "from_token_symbol", "to_token_symbol", "to_amount_str", "from_amount_str",
     "usd_volume_from_api", "to_amount", "from_amount", "display_usd_value",
     "leading", "change_text_val", "message"}

\* names the button list of lines 356-361 reads
ButtonNames ==
    {"InlineKeyboardButton", "tx_url", "TOKEN_NAME", "SWAP_URL",
     "METAMASK_ADD_NETWORK_URL", "InlineKeyboardMarkup"}

\* lines 356-361 raise NameError when a name they read is bound nowhere
ButtonsRaise == ~(ButtonNames \subseteq BoundNames)

\* process_buy_notification up to line 365, for a registry that is not empty:
\* "error" is an exception caught at line 403, "missing_amounts" the return of
\* line 305, "built" a message and buttons ready for the delivery loop
BuildOutcome(attrs) ==
    IF attrs.amounts = "unparsable" THEN "error"
    ELSE IF attrs.amounts = "missing" THEN "missing_amounts"
    ELSE IF ButtonsRaise THEN "error"
    ELSE "built"

\* phrases of line 388-392, each naming a chat that cannot be reached any more
PermanentPhrases ==
    {"chat not found", "bot was blocked by the user", "user is deactivated",
     "group chat was deactivated", "bot was kicked"}

\* an error text is modelled by the set of phrases of lines 388-393 it contains
ErrorTexts == {{"bot was blocked by the user"}, {"parse entities"}}

OkAnswer == [ok |-> TRUE, text |-> {}]

\* what send_video does for one chat: returns, or raises with some text
Answers == {OkAnswer} \cup {[ok |-> FALSE, text |-> t] : t \in ErrorTexts}

\* lines 388-396: the failed chat is to be removed
ErrorRemoves(text) ==
    /\ text \cap (PermanentPhrases \cup {"parse entities"}) # {}
    /\ "parse entities" \notin text

\* list(chat_ids): the set in some order
Orders(S) ==
    {o \in [1..Cardinality(S) -> S] : \A i, j \in DOMAIN o : o[i] = o[j] => i = j}

\* lines 367-400: the delivery loop over the rest of active_chat_list, from
\* st = [chat_ids, file, sent_to_chats, failed_chats, attempted]; answers[c] is
\* what send_video does for c, saves[c] how a save after removing c ends
RECURSIVE SendLoop(_, _, _, _)
SendLoop(list, answers, saves, st) ==
    IF list = <<>> THEN st
    ELSE
        LET cid == Head(list)
            tried == [st EXCEPT !.attempted = Append(@, cid)]
            next ==
                IF answers[cid].ok
                THEN [tried EXCEPT !.sent_to_chats = @ + 1]
                ELSE IF ErrorRemoves(answers[cid].text) /\ cid \in st.chat_ids
                THEN [tried EXCEPT
                        !.failed_chats = Append(@, cid),
                        !.chat_ids = @ \ {cid},
                        !.file = SaveChatIds(st.chat_ids \ {cid}, @, saves[cid])]
                ELSE [tried EXCEPT !.failed_chats = Append(@, cid)]
        IN SendLoop(Tail(list), answers, saves, next)

\* no call of process_buy_notification has returned yet
NoCall ==
    [tx_hash |-> None, amounts |-> "ok", chats |-> {}, answers |-> <<>>,
     outcome |-> "none", attempted |-> <<>>, sent_to_chats |-> 0,
     failed_chats |-> <<>>]

\* ------------------------------------------------------------- USD value
\* Money is counted in thousandths of a USD, token amounts in whole tokens, so
\* that the unit price 0.001 is 1 and the products of line 313 are exact.
\* "volume_in_usd" of a trade record: absent, or a number (0 included)
NoVolume == [present |-> FALSE, value |-> 0]

Volumes == {NoVolume} \cup {[present |-> TRUE, value |-> v] : v \in {0, 100, 2500}}

\* to_token_amount, the amount received
ToAmounts == {0, 1, 100, 250, 1000}

\* omemex_price_usd, never None at line 312 (line 219 let the cycle go on)
UnitPrices == {0, 1, 2, 5, 50}

\* line 301: float(buy_attrs.get("volume_in_usd", 0))
UsdVolumeFromApi(volume) == IF volume.present THEN volume.value ELSE 0

\* mutant of DisplayUsdValue: the volume of the trade record is never looked at
DisplayUsdValueComputed(volume, to_amount, price) == to_amount * price

\* lines 311-313: display_usd_value
DisplayUsdValue(volume, to_amount, price) ==
    LET usd_volume_from_api == UsdVolumeFromApi(volume)
    IN IF usd_volume_from_api = 0 /\ ~IsNone(PyFloat(price)) /\ to_amount > 0
       THEN to_amount * price
       ELSE usd_volume_from_api

\* line 213: "if not chat_ids": nobody is registered, the job returns at once
NoActiveChats(ids) == ids = {}

\* the check of line 222 left out
BaseNeverUnresolved(base) == FALSE

\* line 222: "if not base_token_api_id": the base token id is still unknown
BaseUnresolved(base) == ~Truthy(base)

\* ------------------------------------------------------------- state
VARIABLES
    chat_ids,            \* global chat_ids
    file,                \* contents of CHAT_FILE
    processed_txs,       \* global processed_txs
    base_token_api_id,   \* global base_token_api_id
    pc,                  \* where the poll job stands
    omemex_price_usd,    \* local of fetch_and_process_trades
    trades,              \* the trade-feed response of this cycle, NoFeed before it
    new_buys,            \* local new_buys_attributes_list
    idx,                 \* position of buy_attr_item in new_buys
    pool_status,         \* how this cycle's pool-info request ended
    processed0,          \* processed_txs when this cycle began
    registry0,           \* <<chat_ids, file>> when this cycle began
    calls,               \* tx_hash of each process_buy_notification call of this cycle
    attempts,            \* <<tx_hash, chat, returned>> of each send_video call of this cycle
    last,                \* the process_buy_notification call that just returned
    last_cmd,            \* the registry operation that ran last, NoCmd once a cycle began
    usd                  \* inputs and result of lines 299-313 for one trade record

vars ==
    <<chat_ids, file, processed_txs, base_token_api_id, pc, omemex_price_usd,
      trades, new_buys, idx, pool_status, processed0, registry0, calls, attempts,
      last, last_cmd, usd>>

registry == <<chat_ids, file>>

\* the registry before any cycle began
NoRegistry == <<{}, NoFile>>

locals ==
    <<omemex_price_usd, trades, new_buys, idx, pool_status, processed0, registry0,
      calls, attempts, last, usd>>

\* no trade record is being valued
NoUsd ==
    [volume |-> NoVolume, to_amount |-> 0, price |-> 0, computed |-> FALSE,
     display_usd_value |-> 0]

\* no registry operation since the poll job last began
NoCmd ==
    [op |-> "none", chat |-> None, mem_before |-> {}, file_before |-> NoFile,
     save |-> "none"]

\* the registry operation op of chat c, as it found chat_ids and the file, with
\* the way its save_chat_ids call ended ("none": it made no such call)
Cmd(op, c, res) ==
    [op |-> op, chat |-> c, mem_before |-> chat_ids, file_before |-> file,
     save |-> res]

\* main, lines 454-456: load_chat_ids, then a first get_pool_info
Init ==
    /\ file \in FileStates
    /\ chat_ids = LoadChatIds(file)
    /\ processed_txs = {}
    /\ \E resp \in PoolResponses : base_token_api_id = PoolBaseId(resp, None)
    /\ pc = "idle"
    /\ omemex_price_usd = PyNone
    /\ trades = NoFeed
    /\ new_buys = <<>>
    /\ idx = 1
    /\ pool_status = "none"
    /\ processed0 = {}
    /\ registry0 = NoRegistry
    /\ calls = <<>>
    /\ attempts = {}
    /\ last = NoCall
    /\ last_cmd = [NoCmd EXCEPT !.op = "load", !.file_before = file]
    /\ usd = NoUsd

\* ------------------------------------------------------------- the poll job
\* fetch_and_process_trades, lines 209-224: the job starts, returns at once
\* when nobody is registered, else calls get_pool_info and checks its result
JobStart ==
    /\ pc = "idle"
    /\ processed0' = processed_txs
    /\ registry0' = registry
    /\ last_cmd' = NoCmd
    /\ IF NoActiveChats(chat_ids)
       THEN /\ pc' = "done"
            /\ UNCHANGED <<base_token_api_id, omemex_price_usd, pool_status>>
       ELSE \E resp \in PoolResponses :
            /\ base_token_api_id' = PoolBaseId(resp, base_token_api_id)
            /\ omemex_price_usd' = PoolPrice(resp)
            /\ pool_status' = resp.status
            /\ pc' = IF PoolFailed(PoolPrice(resp)) \/ BaseUnresolved(base_token_api_id')
                     THEN "done"
                     ELSE "fetch"
    /\ UNCHANGED <<registry, processed_txs, trades, new_buys, idx, calls, attempts, last,
                   usd>>

\* fetch_and_process_trades, lines 226-263 and 274-282: the trade-feed request,
\* the first-run seeding, the selection of the new buys
FetchTrades ==
    /\ pc = "fetch"
    /\ \E resp \in FeedResponses :
        /\ trades' = resp
        /\ IF FeedRaised(resp)
           THEN /\ pc' = IF FetchCatches(resp.status) THEN "done" ELSE "raised"
                /\ UNCHANGED <<processed_txs, new_buys>>
           ELSE IF IsBootstrap(processed_txs, resp.data)
           THEN /\ processed_txs' = processed_txs \cup BootstrapIds(resp.data)
                /\ pc' = "done"
                /\ UNCHANGED new_buys
           ELSE /\ new_buys' = SelectNewBuys(resp.data, processed_txs)
                /\ pc' = IF new_buys' = <<>> THEN "done" ELSE "notify"
                /\ UNCHANGED processed_txs
    /\ UNCHANGED <<registry, base_token_api_id, omemex_price_usd, idx, pool_status,
                   processed0, registry0, calls, attempts, last, last_cmd, usd>>

\* line 268: one call of process_buy_notification (lines 284-404), to its
\* return.  The call suspends only inside the delivery loop, which it enters
\* when BuildOutcome is "built" and then runs to its end in this step; as
\* ButtonsRaise holds, every call ends at line 403 before the loop.  answers is
\* what send_video does for each chat of the registry at this time.
ProcessBuyNotification ==
    /\ pc = "notify"
    /\ LET attrs == new_buys[idx]
           built == BuildOutcome(attrs)
       IN \E answers \in [chat_ids -> Answers] :
          IF built = "built" /\ chat_ids # {}
          THEN \E list \in Orders(chat_ids), saves \in [chat_ids -> SaveResults] :
               LET end == SendLoop(list, answers, saves,
                              [chat_ids |-> chat_ids, file |-> file,
                               sent_to_chats |-> 0, failed_chats |-> <<>>,
                               attempted |-> <<>>])
               IN /\ chat_ids' = end.chat_ids
                  /\ file' = end.file
                  /\ attempts' = attempts \cup
                        {<<attrs.tx_hash, end.attempted[i], answers[end.attempted[i]].ok>> :
                            i \in DOMAIN end.attempted}
                  /\ last' = [tx_hash |-> attrs.tx_hash, amounts |-> attrs.amounts,
                              chats |-> chat_ids, answers |-> answers,
                              outcome |-> "sent", attempted |-> end.attempted,
                              sent_to_chats |-> end.sent_to_chats,
                              failed_chats |-> end.failed_chats]
          ELSE /\ UNCHANGED <<registry, attempts>>
               /\ last' = [tx_hash |-> attrs.tx_hash, amounts |-> attrs.amounts,
                           chats |-> chat_ids, answers |-> answers,
                           outcome |-> IF built = "built" THEN "no_chats" ELSE built,
                           attempted |-> <<>>, sent_to_chats |-> 0,
                           failed_chats |-> <<>>]
    /\ calls' = Append(calls, new_buys[idx].tx_hash)
    /\ pc' = "mark"
    /\ UNCHANGED <<processed_txs, base_token_api_id, omemex_price_usd, trades,
                   new_buys, idx, pool_status, processed0, registry0, last_cmd, usd>>

\* line 269, and the loop of line 267 going on to the next buy
MarkBuyProcessed ==
    /\ pc = "mark"
    /\ processed_txs' = MarkProcessed(processed_txs, new_buys[idx])
    /\ idx' = idx + 1
    /\ pc' = IF idx < Len(new_buys) THEN "notify" ELSE "done"
    /\ last' = NoCall
    /\ UNCHANGED <<registry, base_token_api_id, omemex_price_usd, trades, new_buys,
                   pool_status, processed0, registry0, calls, attempts, last_cmd, usd>>

\* the job returns to the job queue; its locals are gone
JobReturn ==
    /\ pc = "done"
    /\ pc' = "idle"
    /\ omemex_price_usd' = PyNone
    /\ trades' = NoFeed
    /\ new_buys' = <<>>
    /\ idx' = 1
    /\ pool_status' = "none"
    /\ processed0' = {}
    /\ registry0' = NoRegistry
    /\ calls' = <<>>
    /\ attempts' = {}
    /\ last' = NoCall
    /\ UNCHANGED <<registry, processed_txs, base_token_api_id, last_cmd, usd>>

\* ------------------------------------------------------------- commands
\* mutant of IsRegistered: the membership test always fails
IsRegisteredNever(c, ids) == FALSE

\* lines 115 and 126: chat_id in chat_ids
IsRegistered(c, ids) == c \in ids

\* start_memexbuy, lines 113-122, from chat c
StartMemexbuy(c) ==
    /\ pc = "idle"
    /\ IF ~IsRegistered(c, chat_ids)
       THEN /\ chat_ids' = chat_ids \cup {c}
            /\ \E res \in SaveResults :
                /\ file' = SaveChatIds(chat_ids', file, res)
                /\ last_cmd' = Cmd("start", c, res)
       ELSE /\ UNCHANGED registry
            /\ last_cmd' = Cmd("start", c, "none")
    /\ UNCHANGED <<processed_txs, base_token_api_id, pc, locals>>

\* stop_memexbuy, lines 124-132, from chat c
StopMemexbuy(c) ==
    /\ pc = "idle"
    /\ IF IsRegistered(c, chat_ids)
       THEN /\ chat_ids' = chat_ids \ {c}
            /\ \E res \in SaveResults :
                /\ file' = SaveChatIds(chat_ids', file, res)
                /\ last_cmd' = Cmd("stop", c, res)
       ELSE /\ UNCHANGED registry
            /\ last_cmd' = Cmd("stop", c, "none")
    /\ UNCHANGED <<processed_txs, base_token_api_id, pc, locals>>

\* status_command, lines 411-436: its get_pool_info call may set the base id
StatusCommand ==
    /\ pc = "idle"
    /\ \E resp \in PoolResponses :
        base_token_api_id' = PoolBaseId(resp, base_token_api_id)
    /\ UNCHANGED <<registry, processed_txs, pc, locals, last_cmd>>

Next ==
    \/ JobStart
    \/ FetchTrades
    \/ ProcessBuyNotification
    \/ MarkBuyProcessed
    \/ JobReturn
    \/ \E c \in Chats : StartMemexbuy(c)
    \/ \E c \in Chats : StopMemexbuy(c)
    \/ StatusCommand

Spec == Init /\ [][Next]_vars

\* ------------------------------------------------------------- the USD value alone
\* process_buy_notification has read one trade record of a cycle that got the
\* unit price (lines 299-308), whatever its volume, amount and price are
InitUsd ==
    /\ file = NoFile
    /\ chat_ids = LoadChatIds(file)
    /\ processed_txs = {}
    /\ base_token_api_id = BaseId
    /\ pc = "notify"
    /\ omemex_price_usd = PyNone
    /\ trades = NoFeed
    /\ new_buys = <<>>
    /\ idx = 1
    /\ pool_status = "ok"
    /\ processed0 = {}
    /\ registry0 = NoRegistry
    /\ calls = <<>>
    /\ attempts = {}
    /\ last = NoCall
    /\ last_cmd = NoCmd
    /\ \E volume \in Volumes, to_amount \in ToAmounts, price \in UnitPrices :
         usd = [volume |-> volume, to_amount |-> to_amount, price |-> price,
                computed |-> FALSE, display_usd_value |-> 0]

\* lines 311-313
ComputeUsd ==
    /\ ~usd.computed
    /\ usd' = [usd EXCEPT
                 !.computed = TRUE,
                 !.display_usd_value =
                     DisplayUsdValue(usd.volume, usd.to_amount, usd.price)]
    /\ UNCHANGED <<registry, processed_txs, base_token_api_id, pc, omemex_price_usd,
                   trades, new_buys, idx, pool_status, processed0, registry0, calls,
                   attempts, last, last_cmd>>

NextUsd == ComputeUsd

SpecUsd == InitUsd /\ [][NextUsd]_vars

\* ------------------------------------------------------------- claims
\* the feed request of this cycle succeeded and the first-run rule did not apply
Steady == trades.status = "ok" /\ ~(processed0 = {} /\ trades.data # <<>>)

\* the entries of this cycle's feed that are buys with a tx_hash not seen before
NewBuyEntries ==
    {i \in DOMAIN trades.data :
        /\ trades.data[i].kind = "buy"
        /\ trades.data[i].tx_hash \in TxIds \ processed0}

\* the chats send_video was called for with transaction t in this cycle
AttemptedFor(t) == {a[2] : a \in {b \in attempts : b[1] = t}}

\* C1: when processed_txs is empty as a cycle begins and the feed returns at
\* least one trade, the cycle ends without a call of process_buy_notification
\* and without a delivery, and every tx_hash of the feed is in processed_txs.
C1_Bootstrap ==
    (trades.status = "ok" /\ processed0 = {} /\ trades.data # <<>>) =>
        /\ pc = "done"
        /\ new_buys = <<>> /\ calls = <<>> /\ attempts = {}
        /\ \A i \in DOMAIN trades.data :
             trades.data[i].tx_hash \in TxIds => trades.data[i].tx_hash \in processed_txs

C1_Witness ==
    /\ pc = "done" /\ trades.status = "ok" /\ processed0 = {}
    /\ Len(trades.data) = 2
    /\ trades.data[1] = [tx_hash |-> "t1", kind |-> "buy", amounts |-> "ok"]
    /\ trades.data[2].tx_hash = "t2"
    /\ processed_txs = {"t1", "t2"}

\* C2: a tx_hash that is in processed_txs when a cycle begins is not selected,
\* not handed to process_buy_notification and not delivered in that cycle; and
\* processed_txs never loses an element, so the same holds in every later cycle.
C2_NoSecondNotification ==
    /\ [](/\ \A i \in DOMAIN new_buys : new_buys[i].tx_hash \notin processed0
          /\ \A i \in DOMAIN calls : calls[i] \notin processed0
          /\ \A a \in attempts : a[1] \notin processed0)
    /\ [][processed_txs \subseteq processed_txs']_vars

C2_Witness ==
    /\ pc = "mark" /\ Steady
    /\ \E i \in DOMAIN trades.data :
         /\ trades.data[i] = [tx_hash |-> "t1", kind |-> "buy", amounts |-> "ok"]
         /\ "t1" \in processed0
    /\ calls = <<"t2">>

\* C3: after the first run, a cycle whose feed shows the seen trades and one
\* new buy calls process_buy_notification once, and that call delivers to
\* every chat registered at that time.
C3_OneNewBuyDelivered ==
    (/\ pc = "mark" /\ Steady
     /\ Cardinality(NewBuyEntries) = 1
     /\ \A i \in NewBuyEntries : trades.data[i].amounts = "ok"
     /\ \A i \in DOMAIN trades.data \ NewBuyEntries : trades.data[i].tx_hash \in processed0) =>
        /\ Len(new_buys) = 1 /\ Len(calls) = 1
        /\ AttemptedFor(calls[1]) = last.chats

\* C4: a trade whose kind is not "buy" is not selected and causes no call of
\* process_buy_notification and no delivery, new tx_hash or not.
C4_OnlyBuys ==
    /\ \A i \in DOMAIN new_buys : new_buys[i].kind = "buy"
    /\ Len(new_buys) <= Cardinality({i \in DOMAIN trades.data : trades.data[i].kind = "buy"})
    /\ \A t \in {calls[i] : i \in DOMAIN calls} \cup {a[1] : a \in attempts} :
         \E i \in DOMAIN trades.data :
            trades.data[i].kind = "buy" /\ trades.data[i].tx_hash = t

C4_Witness ==
    /\ pc = "done" /\ Steady
    /\ Len(trades.data) = 2
    /\ trades.data[1] = [tx_hash |-> "t2", kind |-> "sell", amounts |-> "ok"]
    /\ trades.data[2] = [tx_hash |-> "t3", kind |-> "buy", amounts |-> "ok"]
    /\ processed0 = {"t1"}
    /\ calls = <<"t3">>
    /\ processed_txs = {"t1", "t3"}

\* C5 as claimed: in the steady state a tx_hash is added to processed_txs only
\* when its notification was handled successfully, that is when at least one
\* delivery of it returned.
C5_AddedOnlyAfterSuccess ==
    Steady =>
        \A t \in processed_txs \ processed0 :
            \E a \in attempts : a[1] = t /\ a[3]

\* C5 as amended: in the steady state the tx_hash of a selected buy is added
\* to processed_txs right after process_buy_notification has returned for it,
\* not at selection and not before the call, and it is added whatever the call
\* did (delivered, failed, or returned before any delivery).
C5_AddedAfterReturn ==
    Steady =>
        /\ Len(calls) = (IF pc = "mark" THEN idx ELSE idx - 1)
        /\ \A i \in DOMAIN calls : calls[i] = new_buys[i].tx_hash
        /\ processed_txs = processed0 \cup {calls[i] : i \in 1..(idx - 1)}

C5_Witness ==
    /\ pc = "done" /\ Steady
    /\ new_buys = <<[tx_hash |-> "t2", kind |-> "buy", amounts |-> "missing"]>>
    /\ processed0 = {"t1"}
    /\ processed_txs = {"t1", "t2"}
    /\ attempts = {}

\* C6: in the dispatch of one notification to several chats a delivery that
\* fails for one chat does not end the dispatch: every chat of the dispatch
\* list gets its send_video call.
C6_FanOutGoesOn ==
    (/\ pc = "mark" /\ last.amounts = "ok"
     /\ \E c \in last.chats : ~last.answers[c].ok /\ last.chats # {c}) =>
        \A d \in last.chats : \E i \in DOMAIN last.attempted : last.attempted[i] = d

\* C7: after the dispatch of a notification, a chat whose delivery fails with
\* a text that names a chat gone for good is out of chat_ids, and a chat whose
\* delivery fails otherwise is still in it.
C7_PermanentFailureRemoves ==
    (pc = "mark" /\ last.amounts = "ok") =>
        \A c \in last.chats :
            /\ (~last.answers[c].ok /\ last.answers[c].text \cap PermanentPhrases # {}
                /\ "parse entities" \notin last.answers[c].text) => c \notin chat_ids
            /\ (~last.answers[c].ok /\ last.answers[c].text \cap PermanentPhrases = {})
                => c \in chat_ids

\* C9: when the trade-feed request fails, the cycle calls
\* process_buy_notification for nothing, delivers nothing, and processed_txs is
\* what it was when the cycle began.
C9_FeedFailure ==
    trades.status \in {"timeout", "network", "json", "http_error"} =>
        /\ pc = "done"
        /\ processed_txs = processed0
        /\ new_buys = <<>> /\ calls = <<>> /\ attempts = {}

C9_Witness ==
    /\ trades.status = "http_error"
    /\ trades.data = <<[tx_hash |-> "t2", kind |-> "buy", amounts |-> "ok"]>>
    /\ processed0 = {"t1"}

\* C10: when the pool-info request fails get_pool_info returns None, which is
\* not the price 0, and the cycle ends there: no trade-feed request,
\* processed_txs as it was, nothing dispatched; a fetched price of 0 with the
\* base token known lets the cycle go on to the trade-feed request.
C10_PoolFailureSkips ==
    /\ pool_status \in PoolFailures =>
        /\ omemex_price_usd = PyNone /\ omemex_price_usd # PyFloat(0)
        /\ pc = "done"
        /\ trades = NoFeed
        /\ processed_txs = processed0
        /\ new_buys = <<>> /\ calls = <<>> /\ attempts = {}
    /\ (pool_status = "ok" /\ omemex_price_usd = PyFloat(0) /\ Truthy(base_token_api_id)) =>
        (pc = "fetch" \/ trades # NoFeed)

C10_Witness ==
    /\ pc = "done" /\ pool_status = "timeout"
    /\ processed0 = {"t1"} /\ chat_ids = {"c1", "c2"}


\* C11: a poll cycle that starts with nobody registered, or in which the base
\* token id is still unresolved after the pool-info call, does nothing: it
\* goes straight to its end without a trade-feed request, leaves processed_txs
\* and the registry (set and file) as they were, and hands no trade to
\* process_buy_notification nor to send_video.
C11_NoOpCycle ==
    (pc # "idle" /\ (registry0[1] = {} \/ ~Truthy(base_token_api_id))) =>
        /\ pc = "done"
        /\ trades = NoFeed
        /\ new_buys = <<>>
        /\ processed_txs = processed0
        /\ registry = registry0
        /\ calls = <<>>
        /\ attempts = {}

\* a cycle that found a destination, got the pool price, and stopped on the
\* unresolved base token id, the processed set still waiting for its seeding
C11_Witness ==
    /\ pc = "done"
    /\ registry0[1] # {}
    /\ pool_status = "ok"
    /\ ~IsNone(omemex_price_usd)
    /\ ~Truthy(base_token_api_id)
    /\ trades = NoFeed
    /\ processed_txs = {}

\* C12: a trade whose tx_hash is missing (None) or empty is never selected, is
\* never handed to process_buy_notification and never enters processed_txs,
\* neither by the first-run seeding nor in the steady state.
C12_NoIdNeverUsed ==
    /\ processed_txs \subseteq TxIds
    /\ \A k \in DOMAIN new_buys : new_buys[k].tx_hash \in TxIds
    /\ \A k \in DOMAIN calls : calls[k] \in TxIds
    /\ (pc = "done" /\ trades.status = "ok") =>
          \A i \in DOMAIN trades.data :
              ~Truthy(trades.data[i].tx_hash) =>
                  /\ trades.data[i] \notin {new_buys[k] : k \in DOMAIN new_buys}
                  /\ trades.data[i].tx_hash \notin processed_txs

\* a steady cycle whose feed held a buy without tx_hash next to a new buy:
\* the second alone was selected, handed over and stored
C12_Witness ==
    /\ pc = "done"
    /\ Steady
    /\ Len(trades.data) = 2
    /\ trades.data[1] = [tx_hash |-> "", kind |-> "buy", amounts |-> "ok"]
    /\ trades.data[2] = [tx_hash |-> "t2", kind |-> "buy", amounts |-> "ok"]
    /\ processed0 = {"t1"}
    /\ calls = <<"t2">>
    /\ processed_txs = {"t1", "t2"}

\* C13: the registry is write-through.  After a registry command the file
\* holds the in-memory set as of the most recent save that succeeded: the
\* current set when this command's save succeeded, and still the content the
\* last successful save left (a readable file is only ever written by one)
\* when this command's save failed; and a command that changed the set made
\* a save attempt before anything else ran.
C13_WriteThrough ==
    last_cmd.op \in {"start", "stop"} =>
        /\ chat_ids # last_cmd.mem_before => last_cmd.save # "none"
        /\ last_cmd.save = "ok" => file = GoodFile(chat_ids)
        /\ (last_cmd.save \in {"open_failed", "write_failed"}
              /\ last_cmd.file_before.state = "ok") =>
                file = last_cmd.file_before

\* C14: a failed save is not fatal.  Whatever way the save of a registry
\* command ends, the command returns with its add or remove in effect in
\* chat_ids, and a save that succeeds writes the whole current chat_ids, so
\* that the file is in line again even when earlier saves had failed.
C14_FailedSaveNonFatal ==
    /\ last_cmd.op # "none" => pc = "idle"
    /\ last_cmd.op = "start" => chat_ids = last_cmd.mem_before \cup {last_cmd.chat}
    /\ last_cmd.op = "stop" => chat_ids = last_cmd.mem_before \ {last_cmd.chat}
    /\ (last_cmd.op \in {"start", "stop"} /\ chat_ids # last_cmd.mem_before) =>
          last_cmd.save \in SaveResults
    /\ last_cmd.save = "ok" => file = GoodFile(chat_ids)

\* c1 had subscribed while the save could not open the file, c1 stayed in
\* memory, and the save of c2's subscription then wrote both
C14_Witness ==
    /\ last_cmd = [op |-> "start", chat |-> "c2", mem_before |-> {"c1"},
                   file_before |-> NoFile, save |-> "ok"]
    /\ chat_ids = {"c1", "c2"}
    /\ file = GoodFile({"c1", "c2"})

\* the start command that found neither a file nor anybody registered: the
\* first subscription after a start-up without file
FirstSubscribe ==
    /\ last_cmd.op = "start"
    /\ last_cmd.file_before = NoFile
    /\ last_cmd.mem_before = {}

\* right after load_chat_ids read a file that is absent or unreadable
LoadedNothing == last_cmd.op = "load" /\ file.state \in {"absent", "corrupt"}

\* C15 as stated: loading never raises, an absent or unparsable file gives
\* the empty registry, and from an absent file the first start command leaves
\* a file and a chat_ids that hold exactly the subscribing chat.
C15_FirstSubscribeLeavesFile ==
    /\ LoadedNothing => (chat_ids = {} /\ pc = "idle")
    /\ FirstSubscribe =>
          (chat_ids = {last_cmd.chat} /\ file = GoodFile({last_cmd.chat}))

\* C15, amended: loading never raises, an absent or unparsable file gives the
\* empty registry, and from an absent file the first start command leaves a
\* chat_ids that holds exactly the subscribing chat, and a file that holds
\* exactly it when the save succeeds; when the save fails there is still no
\* file, or an unreadable one.
C15_FirstSubscribe ==
    /\ LoadedNothing => (chat_ids = {} /\ pc = "idle")
    /\ FirstSubscribe =>
          /\ chat_ids = {last_cmd.chat}
          /\ last_cmd.save = "ok" => file = GoodFile({last_cmd.chat})
          /\ last_cmd.save = "open_failed" => file = NoFile
          /\ last_cmd.save = "write_failed" => file = CorruptFile

\* c1 subscribed first, no file being there, and the save wrote it
C15_Witness ==
    /\ FirstSubscribe
    /\ last_cmd.chat = "c1"
    /\ last_cmd.save = "ok"
    /\ chat_ids = {"c1"}
    /\ file = GoodFile({"c1"})

\* C16: the USD value of a trade is the volume embedded in the trade record
\* when that volume is present and not zero, and else (absent or zero) the
\* amount received times the unit price, for every volume, amount and price;
\* 100 received at 0.001 without embedded volume gives 0.1 (100 thousandths).
C16_UsdValue ==
    usd.computed =>
        /\ (usd.volume.present /\ usd.volume.value # 0) =>
              usd.display_usd_value = usd.volume.value
        /\ (~usd.volume.present \/ usd.volume.value = 0) =>
              usd.display_usd_value = usd.to_amount * usd.price
        /\ (usd.volume = NoVolume /\ usd.to_amount = 100 /\ usd.price = 1) =>
              usd.display_usd_value = 100

\* the example: 100 received at unit price 0.001, no volume in the record
C16_Witness ==
    usd = [volume |-> NoVolume, to_amount |-> 100, price |-> 1, computed |-> TRUE,
           display_usd_value |-> 100]

\* C17: the dispatch of one notification to a non-empty registry ends with a
\* consistent delivery report: as many attempts as chats in the dispatch list,
\* sent_to_chats plus the length of failed_chats equal to the attempts, and a
\* chat in failed_chats exactly when its send_video call raised (of two chats
\* with one blocked: 1 sent, 1 failed).
C17_ReportConsistent ==
    (pc = "mark" /\ last.amounts = "ok" /\ last.chats # {}) =>
        /\ last.outcome = "sent"
        /\ Len(last.attempted) = Cardinality(last.chats)
        /\ last.sent_to_chats + Len(last.failed_chats) = Len(last.attempted)
        /\ \A c \in last.chats :
              (\E i \in DOMAIN last.failed_chats : last.failed_chats[i] = c)
                  <=> ~last.answers[c].ok

\* how far the cycle has come: it grows with every step of a cycle
Rank ==
    CASE pc = "fetch"  -> 0
      [] pc = "notify" -> 2 * idx - 1
      [] pc = "mark"   -> 2 * idx
      [] pc = "done"   -> 2 * MaxFeed + 1
      [] OTHER         -> 2 * MaxFeed + 2

\* C18: no failure inside a poll cycle is fatal.  Whatever the pool request,
\* the feed request, the trade data and the building of a notification do, no
\* exception leaves the cycle, every step brings the cycle nearer to its end
\* (so it ends), the loop over the new buys always has its buy to go on with,
\* and once the cycle is over the next one can start.
C18_NoFatalFailure ==
    /\ [](pc \in {"idle", "fetch", "notify", "mark", "done"})
    /\ [](pc \in {"notify", "mark"} => idx \in DOMAIN new_buys)
    /\ [](pc = "idle" => ENABLED JobStart)
    /\ [][pc # "idle" => (pc' = "idle" \/ Rank' > Rank)]_vars
    /\ [][pc = "done" => pc' = "idle"]_vars

\* the first new buy's notification failed while it was built, the cycle went
\* on, and the second new buy has been handed over as well
C18_Witness ==
    /\ pc = "mark"
    /\ idx = 2
    /\ calls = <<"t2", "t3">>
    /\ last.outcome = "error"
    /\ "t2" \in processed_txs

\* the calls of process_buy_notification made so far in this cycle
CallsMade ==
    CASE pc = "notify" -> idx - 1
      [] pc = "mark"   -> idx
      [] OTHER         -> Len(new_buys)

\* C19: in a steady cycle the new buys are handled one after the other in the
\* order of the feed: new_buys holds the new buy entries as the feed orders
\* them, the calls of process_buy_notification follow that order, when the
\* call for a buy begins the tx_hash of every earlier buy is in processed_txs
\* and every send_video call made so far is for an earlier buy (so that at
\* most one buy, and one delivery, is in hand at a time).
C19_InFeedOrder ==
    (Steady /\ pc \in {"notify", "mark", "done"}) =>
        /\ Len(new_buys) = Cardinality(NewBuyEntries)
        /\ \E f \in [DOMAIN new_buys -> NewBuyEntries] :
              /\ \A j, k \in DOMAIN new_buys : j < k => f[j] < f[k]
              /\ \A k \in DOMAIN new_buys : new_buys[k] = trades.data[f[k]]
        /\ Len(calls) = CallsMade
        /\ \A k \in DOMAIN calls : calls[k] = new_buys[k].tx_hash
        /\ pc = "notify" =>
              /\ \A k \in 1..(idx - 1) : new_buys[k].tx_hash \in processed_txs
              /\ \A a \in attempts : \E k \in 1..(idx - 1) : a[1] = new_buys[k].tx_hash
        /\ pc = "mark" =>
              \A a \in attempts : \E k \in 1..idx : a[1] = new_buys[k].tx_hash

\* two new buys in the feed, t3 before t2: the call for t3 has returned, t3 is
\* in processed_txs, and the call for t2 is about to begin
C19_Witness ==
    /\ pc = "notify"
    /\ idx = 2
    /\ processed0 = {"t1"}
    /\ trades.data = <<[tx_hash |-> "t3", kind |-> "buy", amounts |-> "ok"],
                       [tx_hash |-> "t2", kind |-> "buy", amounts |-> "ok"]>>
    /\ new_buys = trades.data
    /\ calls = <<"t3">>
    /\ processed_txs = {"t1", "t3"}

\* the tx_hash values of the new buy entries of this cycle's feed
NewBuyIds == {trades.data[i].tx_hash : i \in NewBuyEntries}

C21_Idempotent ==
    /\ []((last_cmd.op = "start" /\ last_cmd.chat \in last_cmd.mem_before) =>
            /\ last_cmd.save = "none"
            /\ chat_ids = last_cmd.mem_before
            /\ file = last_cmd.file_before)
    /\ []((last_cmd.op = "stop" /\ last_cmd.chat \notin last_cmd.mem_before) =>
            /\ last_cmd.save = "none"
            /\ chat_ids = last_cmd.mem_before
            /\ file = last_cmd.file_before)
    /\ [](chat_ids \subseteq Chats /\ file.ids \subseteq Chats)
    /\ [][(/\ last_cmd.op = "start"
            /\ last_cmd.chat \notin last_cmd.mem_before
            /\ last_cmd'.op = "stop"
            /\ last_cmd'.chat = last_cmd.chat) =>
                chat_ids' = last_cmd.mem_before]_vars

\* c1 was registered, sent the start command again, and nothing moved: no
\* save, the same set, the same file
C21_Witness ==
    /\ last_cmd = [op |-> "start", chat |-> "c1", mem_before |-> {"c1", "c2"},
                   file_before |-> GoodFile({"c1", "c2"}), save |-> "none"]
    /\ chat_ids = {"c1", "c2"}
    /\ file = GoodFile({"c1", "c2"})

\* C23: no tx_hash is handed to process_buy_notification more than once in a
\* process lifetime: not one that an earlier cycle handled or seeded (those
\* are in processed_txs when the cycle begins), and not twice within one
\* cycle, also when the feed lists the same new buy in more than one entry.
C23_NoRepeatDispatch ==
    /\ \A k \in DOMAIN calls : calls[k] \notin processed0
    /\ \A j, k \in DOMAIN calls : j # k => calls[j] # calls[k]
====
